---- MODULE Spec2Model ----
(***************************************************************************)
(* Model of the dymod hot-reload macro (src/src/lib.rs) and of the older   *)
(* copy of the crate (src/dymod/src/lib.rs).                               *)
(*                                                                         *)
(* The program state is the three statics the macro generates (VERSION,    *)
(* DYLIB, MODIFIED_TIME), the operating loader's set of mapped images, the *)
(* build artifact and its versioned copies on disk, and for every caller   *)
(* thread its position inside reload() / dymod_get_lib() / the wrapper.    *)
(* reload() is split at its statements so that the order of unload,        *)
(* delete, copy and load is visible between the steps.  The environment    *)
(* is the external build (Rebuild) and the failures of the file system and *)
(* of the loader, drawn in the step that can fail.                         *)
(***************************************************************************)
EXTENDS Integers, FiniteSets, Sequences, TLC

\* ---------------------------------------------------------------- bounds
MaxVersion == 2      \* a reload starts only while VERSION < MaxVersion
MaxLoads == 2        \* a reload starts only while loads < MaxLoads
MaxTime == 3         \* modification timestamps are 1..MaxTime; a rebuild moves to a later one
MaxArg == 4          \* wrapper arguments are 0..MaxArg
MaxConcOps == 1      \* operations each thread starts in the two-thread specification

\* ------------------------------------------------------------- constants
None == "None_"                 \* no value (operation, result, failure site)
NoTime == 0                     \* Option<SystemTime>::None
NoPath == -2                    \* reload()'s path before it is computed
NoImage == 0                    \* no image
NoLibrary == [id |-> 0, path |-> NoPath, image |-> NoImage]   \* Option<Library>::None
NoSymbol == [lib |-> NoLibrary, name |-> "None_"]
Unlimited == -1                 \* no limit on the operations a thread starts
IoError == -1                   \* a timestamp read that failed: Err(std::io::Error)
Canonical == -1                 \* DYLIB_PATH itself; n >= 0 is DYLIB_PATH ++ n
InitialImage == 1               \* the library build.rs writes
UpdatedImage == 2               \* UPDATED_LIB of the tests
EmptyImage == 3                 \* a build that no longer exports count_sheep
Images == {InitialImage, UpdatedImage, EmptyImage}
Times == 1..MaxTime
Args == 0..MaxArg
AllThreads == {1, 2}
MainThread == {1}
Targets == {"macos", "linux", "windows"}
Fault == "fault"                \* outcome of a call through an unmapped image
Labels == {"None", "One", "Two", "Many", "Lots", "Zzzzzzzz..."}

VARIABLES
    target,          \* cfg(target_os): which reload() is compiled
    AUTO_RELOAD,     \* cfg!(feature = "auto-reload")
    hotswapping,     \* TRUE: the older crate's macro (load_lib) is in use
    VERSION,         \* static mut VERSION: usize
    DYLIB,           \* static mut DYLIB: Option<Library>
    MODIFIED_TIME,   \* static mut MODIFIED_TIME: Option<SystemTime>
    mapped,          \* images the operating loader currently has mapped
    loads,           \* number of successful Library::new calls so far
    artifact,        \* the file at DYLIB_PATH: [content, mtime]
    copies,          \* versioned copies on disk: suffix -> content
    pc,              \* per thread: position in the running operation
    op,              \* per thread: "call" or "reload" (the entry point used)
    arg,             \* per thread: the wrapper's argument
    delete_old,      \* per thread: reload()'s local delete_old
    path,            \* per thread: reload()'s local path (suffix)
    newlib,          \* per thread: the value of Library::new before the store
    lib,             \* per thread: the wrapper's local lib
    symbol,          \* per thread: the wrapper's local symbol
    result,          \* per thread: the value the last wrapper call returned
    outcome,         \* per thread: "none", "ok" or "panic" of the last operation
    obs,             \* per thread: what the current/last operation did
    modified,        \* the artifact was rebuilt after the first load
    failed,          \* some reload has panicked
    prevRet,         \* artifact mtime when the previous wrapper call returned
    storedAtFail,    \* MODIFIED_TIME at the last failed timestamp read
    loadedSrc,       \* content of the artifact when it was last copied or loaded
    rebuilt,         \* the artifact was rebuilt since the process started
    loadedBy,        \* the entry point ("call" or "reload") that stored DYLIB last
    loadedPaths,     \* the paths Library::new has been called with so far
    quota            \* per thread: operations it may still start (Unlimited: any number)

config == <<target, AUTO_RELOAD, hotswapping>>
statics == <<VERSION, DYLIB, MODIFIED_TIME>>
loader == <<mapped, loads>>
fs == <<artifact, copies>>
locals == <<arg, delete_old, path, newlib, lib, symbol>>
hist == <<modified, failed, prevRet, storedAtFail, loadedSrc, rebuilt, loadedBy, loadedPaths>>
vars == <<config, statics, loader, fs, pc, op, locals, result, outcome, obs, hist, quota>>

\* ------------------------------------------------------- pure operators

\* cfg(unix): the copy-to-versioned-path reload() is compiled
CopyStrategy == ~hotswapping /\ target \in {"macos", "linux"}

\* the library source of build.rs and UPDATED_LIB of the tests
count_sheep(image, sheep) ==
    IF image = UpdatedImage THEN "Zzzzzzzz..."
    ELSE IF sheep = 0 THEN "None"
    ELSE IF sheep = 1 THEN "One"
    ELSE IF sheep = 2 THEN "Two"
    ELSE IF sheep = 3 THEN "Many"
    ELSE "Lots"

\* the symbols an image exports
Exports(image) == IF image = EmptyImage THEN {} ELSE {"count_sheep"}

\* std::fs::metadata(..)?.modified()?
ReadModified(ok) == IF ok THEN artifact.mtime ELSE IoError

\* Result<bool, std::io::Error>
Ok(v) == [ok |-> TRUE, value |-> v]
Err == [ok |-> FALSE, value |-> FALSE]

\* Result::unwrap_or
unwrap_or(r, default) == IF r.ok THEN r.value ELSE default

\* file_changed() reporting a change on the first observation
file_changed_NoIsSome(stored, read) ==
    IF read = IoError
    THEN [ret |-> Err, MODIFIED_TIME |-> stored]
    ELSE [ret |-> Ok(stored # read), MODIFIED_TIME |-> read]

\* file_changed() forgetting the stored timestamp when the read fails
file_changed_ErrClears(stored, read) ==
    IF read = IoError
    THEN [ret |-> Err, MODIFIED_TIME |-> NoTime]
    ELSE [ret |-> Ok(stored # NoTime /\ stored # read), MODIFIED_TIME |-> read]

\* file_changed(): its return value and MODIFIED_TIME afterwards
file_changed(stored, read) ==
    IF read = IoError
    THEN [ret |-> Err, MODIFIED_TIME |-> stored]
    ELSE [ret |-> Ok(stored # NoTime /\ stored # read), MODIFIED_TIME |-> read]

\* dymod_file_changed() without the AUTO_RELOAD test
dymod_file_changed_IgnoresFlag(stored, read) ==
    [changed |-> unwrap_or(file_changed(stored, read).ret, FALSE),
     MODIFIED_TIME |-> file_changed(stored, read).MODIFIED_TIME]

\* dymod_file_changed(): AUTO_RELOAD && file_changed().unwrap_or(false)
\* (with AUTO_RELOAD unset, file_changed() is not evaluated)
dymod_file_changed(stored, read) ==
    IF AUTO_RELOAD
    THEN [changed |-> unwrap_or(file_changed(stored, read).ret, FALSE),
          MODIFIED_TIME |-> file_changed(stored, read).MODIFIED_TIME]
    ELSE [changed |-> FALSE, MODIFIED_TIME |-> stored]

\* dymod_get_lib() without the DYLIB.is_none() test
NeedsReload_OnlyChanged(dylib, changed) == changed

\* dymod_get_lib(): DYLIB.is_none() || dymod_file_changed()
NeedsReload(dylib, changed) == dylib = NoLibrary \/ changed

\* dropping an Option<Library>: the image is unmapped
DropLibrary(m, d) == IF d = NoLibrary THEN m ELSE m \ {d}

\* reload() without the statement DYLIB = None
DropOld_Skipped == [DYLIB |-> DYLIB, mapped |-> mapped]

\* reload(): the statement DYLIB = None
DropOld == [DYLIB |-> NoLibrary, mapped |-> DropLibrary(mapped, DYLIB)]

\* reload() that never cleans up the previous copy
DeleteOld_Never(dylib) == FALSE

\* reload(): let delete_old = DYLIB.is_some()
DeleteOld(dylib) == dylib # NoLibrary

\* format!("{}{}", DYLIB_PATH, VERSION - 1)
old_path(version) == version - 1

\* a reload() that copies to one fixed path
new_path_Fixed(version) == 0

\* format!("{}{}", DYLIB_PATH, VERSION)
new_path(version) == version

\* what Library::new maps for a path
ImageAt(p) == IF p = Canonical THEN artifact.content ELSE copies[p]

\* Library::new fails when there is no file at the path
FileExists(p) == p = Canonical \/ p \in DOMAIN copies

NoObs == [startLib |-> NoLibrary, startVersion |-> 0, startTime |-> NoTime, reloads |-> 0, read |-> "none", readTime |-> NoTime,
          failedAt |-> None, stale |-> FALSE, ret |-> Err]

\* ------------------------------------------------------------ initial state
\* everything but MODIFIED_TIME and the artifact
InitRest ==
    /\ VERSION = 0
    /\ DYLIB = NoLibrary
    /\ mapped = {}
    /\ loads = 0
    /\ copies = << >>
    /\ pc = [t \in AllThreads |-> "idle"]
    /\ op = [t \in AllThreads |-> None]
    /\ arg = [t \in AllThreads |-> 0]
    /\ delete_old = [t \in AllThreads |-> FALSE]
    /\ path = [t \in AllThreads |-> NoPath]
    /\ newlib = [t \in AllThreads |-> NoLibrary]
    /\ lib = [t \in AllThreads |-> NoLibrary]
    /\ symbol = [t \in AllThreads |-> NoSymbol]
    /\ result = [t \in AllThreads |-> None]
    /\ outcome = [t \in AllThreads |-> "none"]
    /\ obs = [t \in AllThreads |-> NoObs]
    /\ modified = FALSE
    /\ failed = FALSE
    /\ prevRet = NoTime
    /\ storedAtFail = NoTime
    /\ loadedSrc = NoImage
    /\ rebuilt = FALSE
    /\ loadedBy = None
    /\ loadedPaths = {}

InitCommon ==
    /\ MODIFIED_TIME = NoTime
    /\ artifact = [content |-> InitialImage, mtime |-> 1]
    /\ InitRest

Init ==
    /\ target \in Targets
    /\ AUTO_RELOAD \in BOOLEAN
    /\ hotswapping = FALSE
    /\ quota = [t \in AllThreads |-> Unlimited]
    /\ InitCommon

\* ------------------------------------------------------------ helpers
WithinBounds == VERSION < MaxVersion /\ loads < MaxLoads

\* thread t starts an operation
Start(t) ==
    /\ quota[t] # 0
    /\ quota' = [quota EXCEPT ![t] = IF @ = Unlimited THEN @ ELSE @ - 1]

ResetLocals(t) ==
    /\ delete_old' = [delete_old EXCEPT ![t] = FALSE]
    /\ path' = [path EXCEPT ![t] = NoPath]
    /\ newlib' = [newlib EXCEPT ![t] = NoLibrary]
    /\ lib' = [lib EXCEPT ![t] = NoLibrary]
    /\ symbol' = [symbol EXCEPT ![t] = NoSymbol]

\* a panic unwinds out of the operation; the statics keep their values
Panic(t, where) ==
    /\ pc' = [pc EXCEPT ![t] = "done"]
    /\ outcome' = [outcome EXCEPT ![t] = "panic"]
    /\ obs' = [obs EXCEPT ![t].failedAt = where]
    /\ ResetLocals(t)

\* ------------------------------------------------------------ entry points

\* a generated wrapper is called: pub fn $fnname(..)
CallEntry(t) ==
    /\ pc[t] = "idle"
    /\ Start(t)
    /\ pc' = [pc EXCEPT ![t] = IF hotswapping THEN "load_lib" ELSE "get_lib"]
    /\ op' = [op EXCEPT ![t] = "call"]
    /\ obs' = [obs EXCEPT ![t].startLib = DYLIB, ![t].startVersion = VERSION,
                          ![t].startTime = MODIFIED_TIME]
    /\ UNCHANGED <<config, statics, loader, fs, locals, result, outcome, hist>>

\* a reload() that returns at once when a library is already loaded
ReloadEntry_Lazy(t) ==
    /\ pc[t] = "idle"
    /\ ~hotswapping
    /\ Start(t)
    /\ pc' = [pc EXCEPT ![t] = IF DYLIB = NoLibrary THEN "reload" ELSE "done"]
    /\ outcome' = [outcome EXCEPT ![t] = IF DYLIB = NoLibrary THEN "none" ELSE "ok"]
    /\ op' = [op EXCEPT ![t] = "reload"]
    /\ obs' = [obs EXCEPT ![t].startLib = DYLIB, ![t].startVersion = VERSION,
                          ![t].startTime = MODIFIED_TIME]
    /\ UNCHANGED <<config, statics, loader, fs, locals, result, hist>>

\* pub fn reload() is called by the host
ReloadEntry(t) ==
    /\ pc[t] = "idle"
    /\ Start(t)
    /\ ~hotswapping
    /\ pc' = [pc EXCEPT ![t] = "reload"]
    /\ op' = [op EXCEPT ![t] = "reload"]
    /\ obs' = [obs EXCEPT ![t].startLib = DYLIB, ![t].startVersion = VERSION,
                          ![t].startTime = MODIFIED_TIME]
    /\ UNCHANGED <<config, statics, loader, fs, locals, result, outcome, hist>>

\* ------------------------------------------------------------ dymod_get_lib

\* if DYLIB.is_none() || dymod_file_changed() { reload(); }
\* The timestamp is read only when DYLIB is some and AUTO_RELOAD is set.
GetLibCheck(t) ==
    /\ pc[t] = "get_lib"
    /\ IF DYLIB = NoLibrary
       THEN /\ pc' = [pc EXCEPT ![t] =
                      IF NeedsReload(DYLIB, FALSE) THEN "reload" ELSE "unwrap"]
            /\ UNCHANGED <<MODIFIED_TIME, obs, storedAtFail>>
       ELSE \E ok \in BOOLEAN :
            LET read == ReadModified(ok)
                check == dymod_file_changed(MODIFIED_TIME, read)
                wasRead == AUTO_RELOAD IN
            /\ MODIFIED_TIME' = check.MODIFIED_TIME
            /\ pc' = [pc EXCEPT ![t] =
                        IF NeedsReload(DYLIB, check.changed) THEN "reload" ELSE "unwrap"]
            /\ obs' = [obs EXCEPT
                         ![t].read = IF ~wasRead THEN "none" ELSE IF ok THEN "ok" ELSE "err",
                         ![t].readTime = IF wasRead /\ ok THEN read ELSE NoTime]
            /\ storedAtFail' = IF ~wasRead THEN storedAtFail
                               ELSE IF ok THEN NoTime ELSE MODIFIED_TIME
    /\ UNCHANGED <<config, VERSION, DYLIB, loader, fs, op, locals, result, outcome,
                   modified, failed, prevRet, loadedSrc, rebuilt, loadedBy, loadedPaths>>
    /\ UNCHANGED quota

\* ------------------------------------------------------------ reload

\* let delete_old = DYLIB.is_some(); DYLIB = NoLibrary;
ReloadDropOld(t) ==
    /\ pc[t] = "reload"
    /\ WithinBounds
    /\ delete_old' = [delete_old EXCEPT ![t] = CopyStrategy /\ DeleteOld(DYLIB)]
    /\ mapped' = DropOld.mapped
    /\ DYLIB' = DropOld.DYLIB
    /\ pc' = [pc EXCEPT ![t] =
                IF CopyStrategy
                THEN (IF DeleteOld(DYLIB) THEN "remove_old" ELSE "copy_new")
                ELSE "load_new"]
    /\ path' = [path EXCEPT ![t] = IF CopyStrategy THEN NoPath ELSE Canonical]
    /\ obs' = [obs EXCEPT ![t].reloads = @ + 1]
    /\ UNCHANGED <<config, VERSION, MODIFIED_TIME, loads, fs, op, arg, newlib, lib,
                   symbol, result, outcome, hist>>
    /\ UNCHANGED quota

\* std::fs::remove_file(&old_path).expect("Failed to delete old dylib")
ReloadRemoveOld(t) ==
    /\ pc[t] = "remove_old"
    /\ \E ok \in BOOLEAN :
        IF ok /\ VERSION >= 1 /\ old_path(VERSION) \in DOMAIN copies
        THEN /\ copies' = [p \in DOMAIN copies \ {old_path(VERSION)} |-> copies[p]]
             /\ pc' = [pc EXCEPT ![t] = "copy_new"]
             /\ UNCHANGED <<locals, outcome, obs, failed>>
        ELSE /\ Panic(t, "remove_old")
             /\ failed' = TRUE
             /\ UNCHANGED <<copies, arg>>
    /\ UNCHANGED <<config, statics, loader, artifact, op, result,
                   modified, prevRet, storedAtFail, loadedSrc, rebuilt, loadedBy, loadedPaths>>
    /\ UNCHANGED quota

\* std::fs::copy(DYLIB_PATH, &new_path).expect("Failed to copy new dylib")
ReloadCopyNew(t) ==
    /\ pc[t] = "copy_new"
    /\ \E ok \in BOOLEAN :
        IF ok
        THEN /\ copies' = [p \in DOMAIN copies \cup {new_path(VERSION)} |->
                              IF p = new_path(VERSION) THEN artifact.content
                              ELSE copies[p]]
             /\ path' = [path EXCEPT ![t] = new_path(VERSION)]
             /\ loadedSrc' = artifact.content
             /\ pc' = [pc EXCEPT ![t] =
                         IF target = "macos" THEN "install_name" ELSE "load_new"]
             /\ UNCHANGED <<arg, delete_old, newlib, lib, symbol, outcome, obs, failed>>
        ELSE /\ Panic(t, "copy_new")
             /\ failed' = TRUE
             /\ UNCHANGED <<copies, arg, loadedSrc>>
    /\ UNCHANGED <<config, statics, loader, artifact, op, result,
                   modified, prevRet, storedAtFail, rebuilt, loadedBy, loadedPaths>>
    /\ UNCHANGED quota

\* install_name_tool -id "" path (macos only)
ReloadInstallName(t) ==
    /\ pc[t] = "install_name"
    /\ \E ok \in BOOLEAN :
        IF ok
        THEN /\ pc' = [pc EXCEPT ![t] = "load_new"]
             /\ UNCHANGED <<locals, outcome, obs, failed>>
        ELSE /\ Panic(t, "install_name")
             /\ failed' = TRUE
             /\ UNCHANGED arg
    /\ UNCHANGED <<config, statics, loader, fs, op, result,
                   modified, prevRet, storedAtFail, loadedSrc, rebuilt, loadedBy, loadedPaths>>
    /\ UNCHANGED quota

\* a reload() that leaves VERSION alone
ReloadLoadNew_NoIncrement(t) ==
    /\ pc[t] = "load_new"
    /\ VERSION' = VERSION
    /\ \E ok \in BOOLEAN :
        IF ok /\ FileExists(path[t])
        THEN LET h == [id |-> loads + 1, path |-> path[t], image |-> ImageAt(path[t])] IN
             /\ mapped' = mapped \cup {h}
             /\ loads' = loads + 1
             /\ newlib' = [newlib EXCEPT ![t] = h]
             /\ pc' = [pc EXCEPT ![t] = "store_new"]
             /\ loadedSrc' = IF CopyStrategy THEN loadedSrc ELSE artifact.content
             /\ UNCHANGED <<arg, delete_old, path, lib, symbol, outcome, obs, failed>>
        ELSE /\ Panic(t, "load_new")
             /\ failed' = TRUE
             /\ UNCHANGED <<loader, arg, loadedSrc>>
    /\ loadedPaths' = loadedPaths \cup {path[t]}
    /\ UNCHANGED <<config, DYLIB, MODIFIED_TIME, fs, op, result,
                   modified, prevRet, storedAtFail, rebuilt, loadedBy>>
    /\ UNCHANGED quota

\* a reload() that tries Library::new again when it fails
ReloadLoadNew_Retry(t) ==
    /\ pc[t] = "load_new"
    /\ VERSION' = IF CopyStrategy THEN VERSION + 1 ELSE VERSION
    /\ \E ok \in BOOLEAN :
        IF ok /\ FileExists(path[t])
        THEN LET h == [id |-> loads + 1, path |-> path[t], image |-> ImageAt(path[t])] IN
             /\ mapped' = mapped \cup {h}
             /\ loads' = loads + 1
             /\ newlib' = [newlib EXCEPT ![t] = h]
             /\ pc' = [pc EXCEPT ![t] = "store_new"]
             /\ loadedSrc' = IF CopyStrategy THEN loadedSrc ELSE artifact.content
             /\ UNCHANGED <<arg, delete_old, path, lib, symbol, outcome, obs, failed>>
        ELSE /\ VERSION < MaxVersion
             /\ failed' = TRUE
             /\ UNCHANGED <<pc, loader, locals, outcome, obs, loadedSrc>>
    /\ loadedPaths' = loadedPaths \cup {path[t]}
    /\ UNCHANGED <<config, DYLIB, MODIFIED_TIME, fs, op, result,
                   modified, prevRet, storedAtFail, rebuilt, loadedBy>>
    /\ UNCHANGED quota

\* VERSION += 1 (unix); Library::new(&path).expect("Failed to load dylib")
ReloadLoadNew(t) ==
    /\ pc[t] = "load_new"
    /\ VERSION' = IF CopyStrategy THEN VERSION + 1 ELSE VERSION
    /\ \E ok \in BOOLEAN :
        IF ok /\ FileExists(path[t])
        THEN LET h == [id |-> loads + 1, path |-> path[t], image |-> ImageAt(path[t])] IN
             /\ mapped' = mapped \cup {h}
             /\ loads' = loads + 1
             /\ newlib' = [newlib EXCEPT ![t] = h]
             /\ pc' = [pc EXCEPT ![t] = "store_new"]
             /\ loadedSrc' = IF CopyStrategy THEN loadedSrc ELSE artifact.content
             /\ UNCHANGED <<arg, delete_old, path, lib, symbol, outcome, obs, failed>>
        ELSE /\ Panic(t, "load_new")
             /\ failed' = TRUE
             /\ UNCHANGED <<loader, arg, loadedSrc>>
    /\ loadedPaths' = loadedPaths \cup {path[t]}
    /\ UNCHANGED <<config, DYLIB, MODIFIED_TIME, fs, op, result,
                   modified, prevRet, storedAtFail, rebuilt, loadedBy>>
    /\ UNCHANGED quota

\* DYLIB = Some(..): the assignment drops the value DYLIB held
ReloadStoreNew(t) ==
    /\ pc[t] = "store_new"
    /\ mapped' = DropLibrary(mapped, DYLIB)
    /\ DYLIB' = newlib[t]
    /\ IF op[t] = "reload"
       THEN /\ pc' = [pc EXCEPT ![t] = "done"]
            /\ outcome' = [outcome EXCEPT ![t] = "ok"]
            /\ ResetLocals(t)
       ELSE /\ pc' = [pc EXCEPT ![t] = "unwrap"]
            /\ newlib' = [newlib EXCEPT ![t] = NoLibrary]
            /\ UNCHANGED <<outcome, delete_old, path, lib, symbol>>
    /\ loadedBy' = op[t]
    /\ UNCHANGED <<config, VERSION, MODIFIED_TIME, loads, fs, op, arg, result, obs,
                   modified, failed, prevRet, storedAtFail, loadedSrc, rebuilt,
                   loadedPaths>>
    /\ UNCHANGED quota

\* ------------------------------------------------------------ the wrapper

\* a wrapper that keeps using the handle it found when the call began
GetLibUnwrap_AtEntry(t) ==
    /\ pc[t] = "unwrap"
    /\ IF DYLIB = NoLibrary
       THEN /\ Panic(t, "unwrap")
       ELSE /\ lib' = [lib EXCEPT ![t] =
                       IF obs[t].startLib # NoLibrary THEN obs[t].startLib ELSE DYLIB]
            /\ pc' = [pc EXCEPT ![t] = "get_symbol"]
            /\ UNCHANGED <<delete_old, path, newlib, symbol, outcome, obs>>
    /\ UNCHANGED <<config, statics, loader, fs, op, arg, result, hist>>
    /\ UNCHANGED quota

\* DYLIB.as_ref().unwrap()
GetLibUnwrap(t) ==
    /\ pc[t] = "unwrap"
    /\ IF DYLIB = NoLibrary
       THEN /\ Panic(t, "unwrap")
       ELSE /\ lib' = [lib EXCEPT ![t] = DYLIB]
            /\ pc' = [pc EXCEPT ![t] = "get_symbol"]
            /\ UNCHANGED <<delete_old, path, newlib, symbol, outcome, obs>>
    /\ UNCHANGED <<config, statics, loader, fs, op, arg, result, hist>>
    /\ UNCHANGED quota

\* a wrapper whose failed lookup also gives up the library
WrapperGetSymbol_DropsOnFail(t) ==
    /\ pc[t] = "get_symbol"
    /\ \E found \in BOOLEAN :
        /\ lib[t] \in mapped => found = ("count_sheep" \in Exports(lib[t].image))
        /\ IF found
           THEN /\ symbol' = [symbol EXCEPT ![t] = [lib |-> lib[t], name |-> "count_sheep"]]
                /\ pc' = [pc EXCEPT ![t] = "invoke"]
                /\ UNCHANGED <<delete_old, path, newlib, lib, outcome, obs, statics, loader>>
           ELSE /\ Panic(t, "get_symbol")
                /\ DYLIB' = NoLibrary
                /\ mapped' = DropLibrary(mapped, DYLIB)
                /\ UNCHANGED <<VERSION, MODIFIED_TIME, loads>>
    /\ UNCHANGED <<config, fs, op, arg, result, hist>>
    /\ UNCHANGED quota

\* lib.get(stringify!($fnname).as_bytes()).expect("Failed to get symbol from dylib")
\* Reading through an unmapped image is undefined: the lookup may succeed or fail.
WrapperGetSymbol(t) ==
    /\ pc[t] = "get_symbol"
    /\ \E found \in BOOLEAN :
        /\ lib[t] \in mapped => found = ("count_sheep" \in Exports(lib[t].image))
        /\ IF found
           THEN /\ symbol' = [symbol EXCEPT ![t] = [lib |-> lib[t], name |-> "count_sheep"]]
                /\ pc' = [pc EXCEPT ![t] = "invoke"]
                /\ UNCHANGED <<delete_old, path, newlib, lib, outcome, obs>>
           ELSE Panic(t, "get_symbol")
    /\ UNCHANGED <<config, statics, loader, fs, op, arg, result, hist>>
    /\ UNCHANGED quota

\* symbol($($argname),*)
\* The argument is not read before this point, so it is drawn here.
\* Calling into an unmapped image is undefined: any value, or a fault.
WrapperInvoke(t) ==
    /\ pc[t] = "invoke"
    /\ \E n \in Args, r \in Labels \cup {Fault} :
        /\ symbol[t].lib \in mapped => r = count_sheep(symbol[t].lib.image, n)
        /\ arg' = [arg EXCEPT ![t] = n]
        /\ result' = [result EXCEPT ![t] = r]
    /\ obs' = [obs EXCEPT ![t].stale = (symbol[t].lib \notin mapped)]
    /\ pc' = [pc EXCEPT ![t] = "done"]
    /\ outcome' = [outcome EXCEPT ![t] = "ok"]
    /\ prevRet' = artifact.mtime
    /\ ResetLocals(t)
    /\ UNCHANGED <<config, statics, loader, fs, op, modified, failed, storedAtFail, loadedSrc,
                   rebuilt, loadedBy, loadedPaths>>
    /\ UNCHANGED quota

\* the operation has returned (or unwound) to the host, which goes on
Return(t) ==
    /\ pc[t] = "done"
    /\ pc' = [pc EXCEPT ![t] = "idle"]
    /\ op' = [op EXCEPT ![t] = None]
    /\ arg' = [arg EXCEPT ![t] = 0]
    /\ result' = [result EXCEPT ![t] = None]
    /\ outcome' = [outcome EXCEPT ![t] = "none"]
    /\ obs' = [obs EXCEPT ![t] = NoObs]
    /\ UNCHANGED <<config, statics, loader, fs, delete_old, path, newlib, lib, symbol, hist>>
    /\ UNCHANGED quota

\* ------------------------------------------------------------ older crate

\* load_lib(): the timestamp check of src/dymod/src/lib.rs
LoadLibCheck(t) ==
    /\ pc[t] = "load_lib"
    /\ \E ok \in BOOLEAN :
        LET read == ReadModified(ok) IN
        IF read = IoError
        THEN /\ Panic(t, "load_lib")
             /\ UNCHANGED MODIFIED_TIME
        ELSE /\ MODIFIED_TIME' = read
             /\ pc' = [pc EXCEPT ![t] =
                         IF DYLIB = NoLibrary \/ MODIFIED_TIME # read
                         THEN "reload" ELSE "unwrap"]
             /\ obs' = [obs EXCEPT ![t].read = "ok", ![t].readTime = read]
             /\ UNCHANGED <<delete_old, path, newlib, lib, symbol, outcome>>
    /\ UNCHANGED <<config, VERSION, DYLIB, loader, fs, op, arg, result, hist>>
    /\ UNCHANGED quota

\* ------------------------------------------------------------ change detector

\* file_changed() applied to the stored timestamp and a fresh read
ApplyFileChanged(t) ==
    /\ pc[t] = "idle"
    /\ Start(t)
    /\ \E ok \in BOOLEAN :
        LET read == ReadModified(ok)
            r == file_changed(MODIFIED_TIME, read) IN
        /\ MODIFIED_TIME' = r.MODIFIED_TIME
        /\ obs' = [obs EXCEPT ![t].startTime = MODIFIED_TIME,
                              ![t].read = IF ok THEN "ok" ELSE "err",
                              ![t].readTime = IF ok THEN read ELSE NoTime,
                              ![t].ret = r.ret]
    /\ pc' = [pc EXCEPT ![t] = "done"]
    /\ op' = [op EXCEPT ![t] = "file_changed"]
    /\ outcome' = [outcome EXCEPT ![t] = "ok"]
    /\ UNCHANGED <<config, VERSION, DYLIB, loader, fs, locals, result, hist>>

\* ------------------------------------------------------------ static linking

\* the module source as it is when the host is built: `pub mod $modname;`
\* compiles it into the host binary
BoundImage == InitialImage

\* a statically linked call that ran whatever the artifact holds now
StaticCall_Artifact(t) ==
    /\ pc[t] = "idle"
    /\ Start(t)
    /\ \E n \in Args :
        /\ arg' = [arg EXCEPT ![t] = n]
        /\ result' = [result EXCEPT ![t] = count_sheep(artifact.content, n)]
    /\ pc' = [pc EXCEPT ![t] = "done"]
    /\ op' = [op EXCEPT ![t] = "call"]
    /\ outcome' = [outcome EXCEPT ![t] = "ok"]
    /\ UNCHANGED <<config, statics, loader, fs, delete_old, path, newlib, lib, symbol,
                   obs, hist>>

\* subcrate::count_sheep(n) under the static macro: an ordinary call into the
\* host binary; no static, no file and no loader is touched
StaticCall(t) ==
    /\ pc[t] = "idle"
    /\ Start(t)
    /\ \E n \in Args :
        /\ arg' = [arg EXCEPT ![t] = n]
        /\ result' = [result EXCEPT ![t] = count_sheep(BoundImage, n)]
    /\ pc' = [pc EXCEPT ![t] = "done"]
    /\ op' = [op EXCEPT ![t] = "call"]
    /\ outcome' = [outcome EXCEPT ![t] = "ok"]
    /\ UNCHANGED <<config, statics, loader, fs, delete_old, path, newlib, lib, symbol,
                   obs, hist>>

\* ------------------------------------------------------------ environment

\* the external build step rewrites the artifact: any content, a later timestamp
Rebuild ==
    /\ \E c \in Images, m \in (artifact.mtime + 1)..MaxTime :
        artifact' = [content |-> c, mtime |-> m]
    /\ modified' = (modified \/ loads > 0)
    /\ rebuilt' = TRUE
    /\ UNCHANGED <<config, statics, loader, copies, pc, op, locals, result, outcome,
                   obs, failed, prevRet, storedAtFail, loadedSrc, loadedBy, loadedPaths>>
    /\ UNCHANGED quota

\* ------------------------------------------------------------ specifications
Step(t) ==
    \/ CallEntry(t)
    \/ ReloadEntry(t)
    \/ GetLibCheck(t)
    \/ ReloadDropOld(t)
    \/ ReloadRemoveOld(t)
    \/ ReloadCopyNew(t)
    \/ ReloadInstallName(t)
    \/ ReloadLoadNew(t)
    \/ ReloadStoreNew(t)
    \/ GetLibUnwrap(t)
    \/ WrapperGetSymbol(t)
    \/ WrapperInvoke(t)
    \/ Return(t)

\* one caller thread, the crate of src/src/lib.rs
Next == (\E t \in MainThread : Step(t)) \/ Rebuild

Spec == Init /\ [][Next]_vars

\* one caller thread, either crate
InitAll ==
    /\ \/ target \in Targets /\ AUTO_RELOAD \in BOOLEAN /\ hotswapping = FALSE
       \/ target = "linux" /\ AUTO_RELOAD = TRUE /\ hotswapping = TRUE
    /\ quota = [t \in AllThreads |-> Unlimited]
    /\ InitCommon

NextAll == (\E t \in MainThread : Step(t) \/ LoadLibCheck(t)) \/ Rebuild

SpecAll == InitAll /\ [][NextAll]_vars

\* two threads on the same declared module: thread 1 makes wrapper calls and
\* manual reloads, thread 2 makes manual reloads
Reloader(t) ==
    \/ ReloadEntry(t)
    \/ ReloadDropOld(t)
    \/ ReloadRemoveOld(t)
    \/ ReloadCopyNew(t)
    \/ ReloadInstallName(t)
    \/ ReloadLoadNew(t)
    \/ ReloadStoreNew(t)
    \/ Return(t)

NextConc ==
    \/ \E t \in MainThread : Step(t)
    \/ \E t \in AllThreads \ MainThread : Reloader(t)
    \/ Rebuild

InitConc ==
    /\ target \in Targets
    /\ AUTO_RELOAD \in BOOLEAN
    /\ hotswapping = FALSE
    /\ quota = [t \in AllThreads |-> MaxConcOps]
    /\ InitCommon

SpecConc == InitConc /\ [][NextConc]_vars

\* one caller thread, the static macro (force-static, or a release build):
\* the host calls the module and the external build rewrites the artifact
NextStatic == (\E t \in MainThread : StaticCall(t) \/ Return(t)) \/ Rebuild

SpecStatic == Init /\ [][NextStatic]_vars

\* the change detector alone: any stored value, any timestamp of the file
InitDetector ==
    /\ target = "linux"
    /\ AUTO_RELOAD = TRUE
    /\ hotswapping = FALSE
    /\ quota = [t \in AllThreads |-> Unlimited]
    /\ MODIFIED_TIME \in {NoTime} \cup Times
    /\ \E m \in Times : artifact = [content |-> InitialImage, mtime |-> m]
    /\ InitRest

NextDetector == (\E t \in MainThread : ApplyFileChanged(t) \/ Return(t)) \/ Rebuild

SpecDetector == InitDetector /\ [][NextDetector]_vars

\* ------------------------------------------------------------ properties

\* positions inside reload() after the old handle was dropped and before the
\* new one is mapped
BetweenDropAndLoad == {"remove_old", "copy_new", "install_name", "load_new"}

\* positions inside reload()
InReload == {"reload", "store_new"} \cup BetweenDropAndLoad

NoReloadInProgress == \A t \in AllThreads : pc[t] \notin InReload

\* the order of the statements of the wrapper, dymod_get_lib() and reload()
Rank(p) ==
    CASE p = "idle" -> 0 [] p = "load_lib" -> 1 [] p = "get_lib" -> 1
      [] p = "reload" -> 2 [] p = "remove_old" -> 3 [] p = "copy_new" -> 4
      [] p = "install_name" -> 5 [] p = "load_new" -> 6 [] p = "store_new" -> 7
      [] p = "unwrap" -> 8 [] p = "get_symbol" -> 9 [] p = "invoke" -> 10
      [] OTHER -> 11

\* the values the tests expect of the initial library (count_sheep(0..4))
ExpectedInitial(n) ==
    CASE n = 0 -> "None" [] n = 1 -> "One" [] n = 2 -> "Two" [] n = 3 -> "Many"
      [] OTHER -> "Lots"

\* C1: in every reload (initial, manual, automatic; copy strategy, in-place
\* strategy, older crate) the live handle is unloaded before the new image is
\* loaded: nothing is mapped between the drop and the load, and never are two
\* images mapped at once.
C1_UnloadBeforeLoad ==
    /\ Cardinality(mapped) <= 1
    /\ \A t \in MainThread : pc[t] \in BetweenDropAndLoad => mapped = {}

C1_Witness ==
    \E t \in MainThread :
        /\ pc[t] = "store_new"
        /\ obs[t].startLib # NoLibrary
        /\ mapped = {newlib[t]}

\* C2 (as claimed): with auto-reload, when the artifact's timestamp at a wrapper
\* call differs from its timestamp when the previous wrapper call returned and
\* the read succeeds, the call reloads before it resolves its symbol and calls
\* into an image loaded by that reload.
C2_ChangeBetweenCallsReloads ==
    \A t \in MainThread :
        (/\ AUTO_RELOAD
         /\ op[t] = "call"
         /\ pc[t] = "invoke"
         /\ prevRet # NoTime
         /\ obs[t].read = "ok"
         /\ obs[t].readTime # prevRet)
        => (obs[t].reloads >= 1 /\ symbol[t].lib # obs[t].startLib)

\* C3: with auto-reload off, a wrapper call that finds a library loaded never
\* reloads it: DYLIB is the handle the call found, and the call returns what the
\* artifact computed when that handle was loaded (by the initial load or by
\* the last manual reload), whatever the artifact is now.
C3_NoReloadWithoutAuto ==
    \A t \in MainThread :
        (~AUTO_RELOAD /\ op[t] = "call" /\ obs[t].startLib # NoLibrary)
        => /\ obs[t].reloads = 0
           /\ DYLIB = obs[t].startLib
           /\ DYLIB \in mapped
           /\ (pc[t] = "done" /\ outcome[t] = "ok"
                  => result[t] = count_sheep(loadedSrc, arg[t]))

C3_Witness ==
    \E t \in MainThread :
        /\ ~AUTO_RELOAD
        /\ pc[t] = "done" /\ op[t] = "call" /\ outcome[t] = "ok"
        /\ loadedBy = "reload"
        /\ obs[t].startLib.id >= 2
        /\ result[t] = "Zzzzzzzz..."
        /\ artifact.content = InitialImage

\* C4: a wrapper call made while nothing is loaded runs reload() once and, when
\* it returns, has called into the image that reload loaded; as long as the
\* artifact was never rebuilt every call returns the initial library's value.
C4_InitialLoad ==
    \A t \in MainThread :
        (op[t] = "call" /\ pc[t] = "done")
        => /\ obs[t].startLib = NoLibrary => obs[t].reloads = 1
           /\ (obs[t].startLib = NoLibrary /\ outcome[t] = "ok")
                 => /\ DYLIB # NoLibrary
                    /\ DYLIB.id = loads
                    /\ result[t] = count_sheep(loadedSrc, arg[t])
           /\ (outcome[t] = "ok" /\ ~rebuilt) => result[t] = ExpectedInitial(arg[t])

C4_Witness ==
    \E t \in MainThread :
        /\ op[t] = "call" /\ pc[t] = "done" /\ outcome[t] = "ok"
        /\ obs[t].startLib = NoLibrary
        /\ ~rebuilt
        /\ arg[t] = 3 /\ result[t] = "Many"

\* C5: while the artifact has not been modified since the first load, a wrapper
\* call that finds a library loaded does not reload: the handle and VERSION
\* are what they were when the call began.
C5_NoChangeNoReload ==
    \A t \in MainThread :
        (op[t] = "call" /\ obs[t].startLib # NoLibrary /\ ~modified)
        => /\ obs[t].reloads = 0
           /\ DYLIB = obs[t].startLib
           /\ VERSION = obs[t].startVersion

C5_Witness ==
    \E t \in MainThread :
        /\ AUTO_RELOAD /\ ~modified
        /\ op[t] = "call" /\ pc[t] = "done" /\ outcome[t] = "ok"
        /\ obs[t].startLib # NoLibrary
        /\ obs[t].startTime # NoTime
        /\ obs[t].read = "ok"

\* C6: copy strategy, no reload has failed, the initial load is done and no
\* reload is in progress: exactly one versioned copy is on disk, the one the
\* live handle was loaded from (suffix VERSION - 1).
C6_OneVersionedCopy ==
    (CopyStrategy /\ ~failed /\ loads >= 1 /\ NoReloadInProgress)
    => /\ DYLIB # NoLibrary
       /\ DOMAIN copies = {DYLIB.path}
       /\ DYLIB.path = VERSION - 1
       /\ copies[DYLIB.path] = DYLIB.image

C6_Witness ==
    /\ CopyStrategy /\ ~failed /\ NoReloadInProgress
    /\ VERSION = 2 /\ loads = 2
    /\ DOMAIN copies = {1}

\* C7: a timestamp read that fails inside a wrapper call raises nothing, starts
\* no reload and leaves MODIFIED_TIME as it was; the next read that succeeds
\* starts a reload when the timestamp differs from the value that was stored
\* when the read failed.
C7_FailedReadIsAbsorbed ==
    [][\A t \in MainThread :
          (pc[t] = "get_lib" /\ pc'[t] # "get_lib")
          => /\ obs'[t].read = "err"
                  => (pc'[t] = "unwrap" /\ MODIFIED_TIME' = MODIFIED_TIME)
             /\ (obs'[t].read = "ok" /\ storedAtFail # NoTime
                    /\ obs'[t].readTime # storedAtFail)
                  => pc'[t] = "reload"]_vars

C7_Witness ==
    \E t \in MainThread :
        /\ pc[t] = "unwrap"
        /\ obs[t].read = "err"
        /\ storedAtFail # NoTime
        /\ storedAtFail # artifact.mtime
        /\ MODIFIED_TIME = storedAtFail

\* C8: reload() called by the host always runs the whole transition, with or
\* without auto-reload, changed file or not: the handle found at entry is
\* unmapped, and when reload() returns DYLIB is a handle loaded by it from the
\* artifact as it was copied or loaded; called with nothing loaded it loads.
C8_ManualReloadAlwaysReloads ==
    \A t \in MainThread :
        (op[t] = "reload" /\ pc[t] = "done")
        => /\ obs[t].reloads = 1
           /\ obs[t].startLib \notin mapped
           /\ outcome[t] = "ok"
                => /\ DYLIB # NoLibrary
                   /\ DYLIB.id = loads
                   /\ DYLIB.id > obs[t].startLib.id
                   /\ mapped = {DYLIB}
                   /\ DYLIB.image = loadedSrc
                   /\ loadedBy = "reload"

C8_Witness ==
    \E t \in MainThread :
        /\ op[t] = "reload" /\ pc[t] = "done" /\ outcome[t] = "ok"
        /\ obs[t].startLib # NoLibrary
        /\ ~rebuilt

\* C9: a reload that panics at the delete, copy, install-name or load step
\* leaves no handle: DYLIB is None and nothing is mapped; and a wrapper never
\* looks up or calls through a handle that is not mapped.
C9_FailedReloadLeavesNoHandle ==
    /\ \A t \in MainThread :
          (pc[t] = "done" /\ outcome[t] = "panic" /\ obs[t].failedAt \in BetweenDropAndLoad)
          => (DYLIB = NoLibrary /\ mapped = {})
    /\ \A t \in MainThread :
          /\ pc[t] = "get_symbol" => lib[t] \in mapped
          /\ pc[t] = "invoke" => symbol[t].lib \in mapped

C9_Witness ==
    \E t \in MainThread :
        /\ pc[t] = "done" /\ outcome[t] = "panic"
        /\ obs[t].failedAt = "load_new"
        /\ obs[t].startLib # NoLibrary

\* C10 (as claimed): with two threads on one module, no wrapper calls a function
\* address after the handle it was resolved from has been unloaded.
C10_NoCallAfterUnload ==
    \A t \in AllThreads : ~obs[t].stale

\* C11: with one caller thread, a wrapper holds no function address outside
\* its own invocation (none is kept from one call to the next), and the
\* address it invokes was resolved, after the call's own check and reload,
\* from the handle that is live at the invocation: DYLIB, mapped, and the
\* product of the latest load, never the handle an earlier reload dropped.
C11_SymbolResolvedAnew ==
    \A t \in MainThread :
        /\ pc[t] # "invoke" => symbol[t] = NoSymbol
        /\ pc[t] = "invoke"
             => /\ symbol[t].lib = DYLIB
                /\ symbol[t].lib \in mapped
                /\ symbol[t].lib.id = loads
                /\ obs[t].reloads >= 1 => symbol[t].lib # obs[t].startLib

C11_Witness ==
    \E t \in MainThread :
        /\ pc[t] = "invoke"
        /\ obs[t].startLib # NoLibrary
        /\ obs[t].reloads = 1
        /\ symbol[t].lib.id = obs[t].startLib.id + 1

\* C12: under the static macro nothing of the reload machinery exists or
\* moves (no handle, no timestamp, no generation, no mapped image, no
\* versioned copy, no position inside reload), and every call returns what the
\* module computed when the host was built, however the artifact was
\* overwritten and rebuilt since.
C12_StaticNeverReloads ==
    /\ DYLIB = NoLibrary /\ VERSION = 0 /\ MODIFIED_TIME = NoTime
    /\ mapped = {} /\ loads = 0 /\ DOMAIN copies = {}
    /\ \A t \in MainThread :
          /\ pc[t] \in {"idle", "done"}
          /\ pc[t] = "done"
               => (outcome[t] = "ok" /\ result[t] = ExpectedInitial(arg[t]))

C12_Witness ==
    \E t \in MainThread :
        /\ pc[t] = "done" /\ op[t] = "call"
        /\ rebuilt /\ artifact.content = UpdatedImage
        /\ arg[t] = 3 /\ result[t] = "Many"

\* C13 (as claimed): with auto-reload, when the wrapper call that made the
\* initial load returns, MODIFIED_TIME holds a timestamp of the artifact; it is
\* not None.
C13_InitialLoadRecordsTime ==
    \A t \in MainThread :
        (/\ AUTO_RELOAD
         /\ op[t] = "call" /\ pc[t] = "done" /\ outcome[t] = "ok"
         /\ obs[t].startLib = NoLibrary
         /\ obs[t].reloads = 1)
        => (MODIFIED_TIME # NoTime /\ MODIFIED_TIME \in 1..artifact.mtime)

\* C14: for every stored value (None or a timestamp) and every timestamp read
\* successfully, file_changed() returns Ok(true) exactly when the stored value
\* is a timestamp other than the one read (Ok(false) on the first observation
\* and when the two are equal), and MODIFIED_TIME afterwards is the timestamp
\* read.
C14_DetectorTruthTable ==
    \A t \in MainThread :
        (op[t] = "file_changed" /\ pc[t] = "done" /\ obs[t].read = "ok")
        => /\ obs[t].ret.ok
           /\ obs[t].startTime = NoTime => ~obs[t].ret.value
           /\ obs[t].startTime = obs[t].readTime => ~obs[t].ret.value
           /\ (obs[t].startTime \in Times /\ obs[t].startTime # obs[t].readTime)
                => obs[t].ret.value
           /\ MODIFIED_TIME = obs[t].readTime

C14_Witness ==
    \E t \in MainThread :
        /\ op[t] = "file_changed" /\ pc[t] = "done" /\ obs[t].read = "ok"
        /\ obs[t].startTime = 3 /\ obs[t].readTime = 2
        /\ obs[t].ret = Ok(TRUE)
        /\ MODIFIED_TIME = 2

\* C15 (as claimed): VERSION never decreases and changes only when a reload
\* succeeds, then by exactly one: an operation whose reload panicked (at the
\* delete, copy, install-name or load step) and a wrapper call that did not
\* reload (failed timestamp read included) end with the VERSION they began
\* with, and under the copy strategy a reload that succeeded ends with one more.
C15_GenerationOnlyOnSuccess ==
    \A t \in MainThread :
        op[t] \in {"call", "reload"}
        => /\ VERSION >= obs[t].startVersion
           /\ VERSION <= obs[t].startVersion + 1
           /\ (pc[t] = "done" /\ obs[t].failedAt \in BetweenDropAndLoad)
                => VERSION = obs[t].startVersion
           /\ obs[t].reloads = 0 => VERSION = obs[t].startVersion
           /\ (pc[t] = "done" /\ obs[t].reloads = 1 /\ CopyStrategy
                  /\ obs[t].failedAt \notin BetweenDropAndLoad)
                => VERSION = obs[t].startVersion + 1

\* C16 (as claimed): copy strategy; once the versioned file that backed the
\* handle an operation found live is gone from disk, the handle of the next
\* generation has been loaded and stored in its place.
C16_FileKeptUntilSuccessor ==
    CopyStrategy
    => \A t \in MainThread :
          (/\ op[t] \in {"call", "reload"}
           /\ obs[t].startLib # NoLibrary
           /\ obs[t].startLib.path \notin DOMAIN copies)
          => (DYLIB # NoLibrary /\ DYLIB \in mapped /\ DYLIB.id > obs[t].startLib.id)

\* C16 (amended): copy strategy; a versioned file is deleted only by the
\* remove step of the next reload, and it is the file that backed the handle
\* that reload found live; at the deletion that handle is already unloaded
\* (DYLIB is None, nothing is mapped) and the next generation is neither copied
\* nor loaded yet.
C16_FileDeletedAfterUnloadBeforeCopy ==
    [][CopyStrategy
       => \A p \in DOMAIN copies \ DOMAIN copies' :
             \E t \in MainThread :
                /\ pc[t] = "remove_old" /\ pc'[t] = "copy_new"
                /\ p = obs[t].startLib.path
                /\ p = old_path(VERSION)
                /\ DYLIB = NoLibrary /\ mapped = {}
                /\ DYLIB' = NoLibrary /\ mapped' = {} /\ loads' = loads
                /\ new_path(VERSION) \notin DOMAIN copies]_vars

C16_Witness ==
    \E t \in MainThread :
        /\ CopyStrategy
        /\ pc[t] = "copy_new" /\ delete_old[t]
        /\ obs[t].startLib.path = 0
        /\ DOMAIN copies = {}
        /\ DYLIB = NoLibrary

\* C17: copy strategy; every handle that is live has its versioned file on
\* disk, holding the image that was mapped from it, and when reload() is about
\* to remove the old file the handle loaded from that file is already
\* unloaded.
C17_FileOutlivesHandle ==
    CopyStrategy
    => /\ \A h \in mapped : h.path \in DOMAIN copies /\ copies[h.path] = h.image
       /\ DYLIB # NoLibrary => DYLIB.path \in DOMAIN copies
       /\ \A t \in MainThread :
             pc[t] = "remove_old"
             => /\ DYLIB = NoLibrary
                /\ obs[t].startLib \notin mapped
                /\ obs[t].startLib.path = old_path(VERSION)
                /\ old_path(VERSION) \in DOMAIN copies

C17_Witness ==
    \E t \in MainThread :
        /\ CopyStrategy
        /\ pc[t] = "store_new"
        /\ obs[t].startLib # NoLibrary
        /\ obs[t].startLib \notin mapped
        /\ obs[t].startLib.path \notin DOMAIN copies
        /\ newlib[t].path \in DOMAIN copies

\* C18 (as claimed): copy strategy; whenever no reload is in progress and a
\* handle is live, failed reload attempts and retries included, the only
\* versioned copy on disk is the one the live handle was loaded from.
C18_OnlyLiveCopyOnDisk ==
    (CopyStrategy /\ NoReloadInProgress /\ DYLIB # NoLibrary)
    => /\ Cardinality(DOMAIN copies) <= 1
       /\ \A p \in DOMAIN copies : p = DYLIB.path

\* C19: copy strategy; every call of Library::new, in successful and in failed
\* reloads and in retries alike, is given a versioned path (never DYLIB_PATH
\* itself) whose suffix is greater than the suffix of every path given to
\* Library::new before, so no path is loaded twice; every handle was loaded
\* from such a path.
C19_FreshVersionedPath ==
    CopyStrategy
    => /\ Canonical \notin loadedPaths
       /\ \A h \in mapped : h.path >= 0 /\ h.path \in loadedPaths
       /\ \A t \in MainThread :
             pc[t] = "load_new"
             => /\ path[t] >= 0
                /\ path[t] = new_path(VERSION)
                /\ \A p \in loadedPaths : path[t] > p

C19_Witness ==
    \E t \in MainThread :
        /\ CopyStrategy
        /\ pc[t] = "load_new"
        /\ failed
        /\ loadedPaths = {0}
        /\ path[t] = 1

\* C20: the symbol lookup that fails because the live image does not export
\* the function panics out of the wrapper and changes nothing else: VERSION,
\* DYLIB, MODIFIED_TIME, the mapped images, the artifact and the versioned
\* copies are what they were before the lookup; the handle is still live and
\* mapped (and, copy strategy, still has its file), so the next call finds a
\* library loaded and has no reload to make on that account.
C20_FailedLookupChangesNothing ==
    [][\A t \in MainThread :
          (pc[t] = "get_symbol" /\ pc'[t] = "done")
          => /\ outcome'[t] = "panic" /\ obs'[t].failedAt = "get_symbol"
             /\ VERSION' = VERSION /\ DYLIB' = DYLIB /\ MODIFIED_TIME' = MODIFIED_TIME
             /\ mapped' = mapped /\ loads' = loads
             /\ artifact' = artifact /\ copies' = copies
             /\ DYLIB' # NoLibrary /\ DYLIB' \in mapped'
             /\ CopyStrategy => DYLIB'.path \in DOMAIN copies'
             /\ ~NeedsReload(DYLIB', FALSE)]_vars

C20_Witness ==
    \E t \in MainThread :
        /\ pc[t] = "done" /\ op[t] = "call" /\ outcome[t] = "panic"
        /\ obs[t].failedAt = "get_symbol"
        /\ obs[t].reloads = 0
        /\ obs[t].startLib = DYLIB
        /\ DYLIB \in mapped
        /\ DYLIB.image = EmptyImage

\* C21: nothing is retried inside an operation: every step of an operation
\* moves forward in the order of the statements (only the return to the host
\* goes back to idle), so the delete, the copy, the install-name step and the
\* load are each attempted at most once per reload and a failed load ends the
\* operation; an operation starts at most one reload; and while a thread
\* stays where it is inside reload() nothing of the reload state moves.
C21_NoRetry ==
    [][\A t \in MainThread :
          /\ pc'[t] # pc[t]
               => \/ pc[t] = "done" /\ pc'[t] = "idle"
                  \/ Rank(pc'[t]) > Rank(pc[t])
          /\ (pc'[t] = pc[t] /\ pc[t] \in InReload)
               => UNCHANGED <<VERSION, DYLIB, mapped, loads, copies, loadedPaths>>
          /\ obs'[t].reloads <= 1
          /\ (pc[t] \in {"copy_new", "install_name", "load_new"} /\ pc'[t] = "done")
               => (outcome'[t] = "panic" /\ DYLIB' = NoLibrary /\ loads' = loads)]_vars

C21_Witness ==
    \E t \in MainThread :
        /\ pc[t] = "done" /\ op[t] = "call" /\ outcome[t] = "panic"
        /\ obs[t].failedAt = "load_new"
        /\ obs[t].reloads = 1
        /\ obs[t].startLib # NoLibrary
        /\ DYLIB = NoLibrary

\* C22: once a reload has failed, a wrapper call that finds no library loaded
\* starts a reload, with auto-reload or without, the timestamp changed or not:
\* it does not get past dymod_get_lib() without having reloaded, and when its
\* load succeeds DYLIB is the handle just loaded, mapped, holding the artifact
\* as it was copied or loaded, and the call returns what that image computes.
C22_NextCallLoadsAfresh ==
    \A t \in MainThread :
        (op[t] = "call" /\ failed /\ obs[t].startLib = NoLibrary)
        => /\ pc[t] \in {"unwrap", "get_symbol", "invoke", "done"} => obs[t].reloads = 1
           /\ (pc[t] \in {"unwrap", "get_symbol", "invoke"}
                  \/ (pc[t] = "done" /\ obs[t].failedAt \notin InReload))
                => /\ DYLIB # NoLibrary
                   /\ DYLIB \in mapped
                   /\ DYLIB.id = loads
                   /\ DYLIB.image = loadedSrc
                   /\ loadedBy = "call"
           /\ (pc[t] = "done" /\ outcome[t] = "ok")
                => result[t] = count_sheep(DYLIB.image, arg[t])

C22_Witness ==
    \E t \in MainThread :
        /\ op[t] = "call" /\ pc[t] = "done" /\ outcome[t] = "ok"
        /\ failed
        /\ obs[t].startLib = NoLibrary
        /\ ~AUTO_RELOAD
        /\ ~rebuilt
        /\ DYLIB.id = 1
        /\ result[t] = "Two"

\* C23: with one caller thread, whenever dymod_get_lib() has passed its check
\* (and its reload, if it made one) and takes DYLIB.as_ref().unwrap(), DYLIB
\* holds a mapped handle, also after earlier failed reloads; the unwrap never
\* panics and the lookup that follows uses that handle.
C23_UnwrapNeverFails ==
    \A t \in MainThread :
        /\ pc[t] = "unwrap" => (DYLIB # NoLibrary /\ DYLIB \in mapped)
        /\ pc[t] = "get_symbol" => (lib[t] # NoLibrary /\ lib[t] = DYLIB)
        /\ obs[t].failedAt # "unwrap"

C23_Witness ==
    \E t \in MainThread :
        /\ pc[t] = "unwrap"
        /\ failed
        /\ obs[t].startLib = NoLibrary
        /\ obs[t].reloads = 1
        /\ DYLIB \in mapped
        /\ rebuilt

\* C24: copy strategy; whenever a handle is live VERSION is at least 1 and the
\* file with suffix VERSION - 1 exists and is the copy the live handle was
\* loaded from; and whenever reload() is about to delete, VERSION - 1 does not
\* underflow and names the file of the handle that reload() found live.
C24_VersionNamesLiveCopy ==
    CopyStrategy
    => /\ DYLIB # NoLibrary
            => /\ VERSION >= 1
               /\ VERSION - 1 = DYLIB.path
               /\ (VERSION - 1) \in DOMAIN copies
               /\ copies[VERSION - 1] = DYLIB.image
       /\ \A t \in MainThread :
             (pc[t] = "remove_old" \/ (pc[t] = "reload" /\ DYLIB # NoLibrary))
             => /\ VERSION - 1 >= 0
                /\ VERSION - 1 = obs[t].startLib.path
                /\ copies[VERSION - 1] = obs[t].startLib.image

C24_Witness ==
    /\ CopyStrategy
    /\ DYLIB # NoLibrary /\ DYLIB \in mapped
    /\ failed
    /\ VERSION = 2
    /\ DOMAIN copies = {0, 1}
    /\ DYLIB.path = 1

====
